---- MODULE Spec2Model ----
(***************************************************************************)
(* Model of the task manager of the generic agent sample                   *)
(* (samples/python/agents/generic_agent/task_manager.py).                  *)
(*                                                                         *)
(* TaskManager extends InMemoryTaskManager (common.server.task_manager),   *)
(* whose code is not part of the sources at hand: the Task Store           *)
(* (upsert_task, update_store, append_task_history), the queue registry    *)
(* (setup_sse_consumer, enqueue_events_for_sse, dequeue_events_for_sse),   *)
(* the push config table and utils.are_modalities_compatible are modelled  *)
(* from the design document.  The import block of task_manager.py is       *)
(* marked as a placeholder; the names TextPart, TaskStatusUpdateEvent and  *)
(* TaskArtifactUpdateEvent used by the class are taken to resolve to the   *)
(* classes of common.types.                                                *)
(*                                                                         *)
(* The handlers are coroutines of one event loop.  A coroutine runs        *)
(* without interruption up to an await that waits for I/O: the delivery of *)
(* a push notification (when the task has a push config) and the pull of   *)
(* the next item from the agent's stream.  The actions are cut there.      *)
(***************************************************************************)
EXTENDS Integers, Sequences, FiniteSets, TLC

\* ---------------------------------------------------------------- bounds
\* requests (send, subscribe, set push config) received over a run
MaxReq == 2
\* items the agent yields over a run, on all its streams together
MaxItems == 2

Reqs == 1..MaxReq
TaskIds == {"t1", "t2"}
Urls == {"http://ok", "http://unverifiable"}
VerifiableUrls == {"http://ok"}

\* An optional value (None, or a local variable not yet bound) is the empty
\* sequence <<>>; a present value v is <<v>>.
None == <<>>
Some(v) == <<v>>
IsSet(opt) == opt # <<>>

\* ------------------------------------------------------------ request inputs
OutputModeChoices == {{"text"}, {"image"}, {"text", "image"}}
PushChoices == {None, Some([url |-> ""]), Some([url |-> "http://ok"])}
PartsChoices == {<<[type |-> "text", text |-> "q"]>>, <<[type |-> "file"]>>}
HistoryLengthChoices == {None, Some(0), Some(1), Some(2)}

TaskSendParams ==
    [id : TaskIds, acceptedOutputModes : OutputModeChoices,
     pushNotification : PushChoices, parts : PartsChoices,
     historyLength : HistoryLengthChoices]

\* a streaming request: its historyLength is not read
StreamingParams == {p \in TaskSendParams : p.historyLength = None}

\* ------------------------------------------------------------ the agent
SUPPORTED_CONTENT_TYPES == {"text", "text/plain"}

\* dict.get(key, default)
Get(d, k, default) == IF k \in DOMAIN d THEN d[k] ELSE default

AgentResult(content, is_task_complete, require_user_input) ==
    ("content" :> content) @@ ("is_task_complete" :> is_task_complete)
        @@ ("require_user_input" :> require_user_input)

\* The dictionaries an agent yields from stream(): every combination of the
\* two flags.
StreamItems ==
    { AgentResult("thinking", FALSE, FALSE), AgentResult("done", TRUE, FALSE),
      AgentResult("more?", FALSE, TRUE), AgentResult("more?", TRUE, TRUE) }

\* The dictionaries an agent returns from invoke(): the same, and one with
\* both flags left out.
AgentResults == StreamItems \cup { ("content" :> "hi") }

\* ------------------------------------------------------------ state
VARIABLES
    tasks,                    \* Task Store: the set of task records
    push_notification_infos,  \* task id -> optional push config
    task_sse_subscribers,     \* task id -> the queue handles registered for it
    queue,                    \* queue handle -> every event put on it, in order
    req,                      \* request -> its parameters, locals, position, response
    nreq,                     \* number of requests received so far
    sent                      \* push notifications handed to the sender, in order

vars == <<tasks, push_notification_infos, task_sse_subscribers, queue, req, nreq, sent>>

NoResponse == [tag |-> "pending"]
\* items: what the agent's stream has yielded to the driver so far;
\* exc: the exception that ended the driver, if one did;
\* undelivered: a push notification of this handler was not delivered;
\* modes: the acceptedOutputModes of the request
IdleReq ==
    [kind |-> "none", pc |-> "idle", id |-> "t1", modes |-> {}, parts |-> <<>>,
     historyLength |-> None, agent_response |-> None, task_result |-> None,
     steps |-> <<>>,
     task_status |-> None, artifact |-> None, end_stream |-> FALSE,
     items |-> <<>>, exc |-> "", undelivered |-> FALSE, url |-> "",
     resp |-> NoResponse]

Init ==
    /\ tasks = {}
    /\ push_notification_infos = [t \in TaskIds |-> None]
    /\ task_sse_subscribers = [t \in TaskIds |-> {}]
    /\ queue = [r \in Reqs |-> <<>>]
    /\ req = [r \in Reqs |-> IdleReq]
    /\ nreq = 0
    /\ sent = <<>>

\* Task ids are interchangeable: the first request names "t1".
IdAllowed(id) == nreq > 0 \/ id = "t1"

\* ------------------------------------------------------------ Task Store
TaskStatus(state, message) == [state |-> state, message |-> message]
Message(parts) == [role |-> "agent", parts |-> parts]
TextParts(item) == <<[type |-> "text", text |-> Get(item, "content", "")]>>

HasTask(store, id) == \E t \in store : t.id = id
TaskOf(store, id) == CHOOSE t \in store : t.id = id

upsert_task(store, params) ==
    IF HasTask(store, params.id)
    THEN store
    ELSE store \cup {[id |-> params.id,
                      status |-> TaskStatus("submitted", None),
                      history |-> <<>>,
                      artifacts |-> <<>>]}

\* artifacts is a sequence; None (<<>>) appends nothing
update_store(store, id, status, artifacts) ==
    { IF t.id = id
      THEN [t EXCEPT !.status = status,
                     !.history = Append(@, t.status),
                     !.artifacts = @ \o artifacts]
      ELSE t : t \in store }

LastN(s, n) ==
    IF n >= Len(s) THEN s ELSE SubSeq(s, Len(s) - n + 1, Len(s))

append_task_history(task, historyLength) ==
    [task EXCEPT !.history =
        IF IsSet(historyLength) /\ historyLength[1] > 0
        THEN LastN(@, historyLength[1])
        ELSE <<>>]

\* ------------------------------------------------------------ push config
verify_push_notification_url(url) == url \in VerifiableUrls

has_push_notification_info(infos, id) == IsSet(infos[id])

\* the log of notifications after send_task_notification(task)
send_task_notification(infos, log, task) ==
    IF ~has_push_notification_info(infos, task.id)
    THEN log
    ELSE Append(log, [id |-> task.id, state |-> task.status.state,
                      url |-> infos[task.id][1].url])

\* what the awaited delivery does to the coroutine that waits for it: the
\* sender logs a failed delivery and raises nothing
send_push_notification(delivered) == [raised |-> FALSE, logged |-> ~delivered]

\* checked_push_notification_info that stores whatever the verification says
unchecked_push_notification_info(infos, task_id, url) ==
    [infos |-> [infos EXCEPT ![task_id] = Some([url |-> url])],
     returned |-> verify_push_notification_url(url)]

\* lines 202-207: the push configs after the call, and the value returned
checked_push_notification_info(infos, task_id, url) ==
    LET is_verified == verify_push_notification_url(url) IN
    IF ~is_verified
    THEN [infos |-> infos, returned |-> FALSE]
    ELSE [infos |-> [infos EXCEPT ![task_id] = Some([url |-> url])],
          returned |-> TRUE]

\* the call is request r and its return value is the response
set_push_notification_info(r, task_id, url) ==
    /\ r = nreq + 1
    /\ nreq' = r
    /\ IdAllowed(task_id)
    /\ LET out == checked_push_notification_info(push_notification_infos, task_id, url) IN
       /\ push_notification_infos' = out.infos
       /\ req' = [req EXCEPT ![r] =
                    [@ EXCEPT !.kind = "set_push", !.id = task_id, !.pc = "done",
                              !.url = url,
                              !.resp = [tag |-> "returned", value |-> out.returned]]]
    /\ UNCHANGED <<tasks, task_sse_subscribers, queue, sent>>

\* ------------------------------------------------------------ validation
are_modalities_compatible(accepted, supported) == accepted \cap supported # {}

NoError == [type |-> "None"]
InvalidParamsError(message) == [type |-> "InvalidParamsError", message |-> message]
InternalError(message) == [type |-> "InternalError", message |-> message]

\* validate_request without the check of the output modes
validate_request_no_modes(params) ==
    IF IsSet(params.pushNotification) /\ params.pushNotification[1].url = ""
    THEN InvalidParamsError("Push notification URL is missing")
    ELSE NoError

\* validate_request without the check of the push URL
validate_request_no_url(params) ==
    IF ~are_modalities_compatible(params.acceptedOutputModes, SUPPORTED_CONTENT_TYPES)
    THEN InvalidParamsError("Incompatible output modes")
    ELSE NoError

\* validate_request that wants every accepted mode to be supported
validate_request_all_modes(params) ==
    IF ~(params.acceptedOutputModes \subseteq SUPPORTED_CONTENT_TYPES)
    THEN InvalidParamsError("Incompatible output modes")
    ELSE IF IsSet(params.pushNotification) /\ params.pushNotification[1].url = ""
    THEN InvalidParamsError("Push notification URL is missing")
    ELSE NoError

\* lines 63-77
validate_request(params) ==
    IF ~are_modalities_compatible(params.acceptedOutputModes, SUPPORTED_CONTENT_TYPES)
    THEN InvalidParamsError("Incompatible output modes")
    ELSE IF IsSet(params.pushNotification) /\ params.pushNotification[1].url = ""
    THEN InvalidParamsError("Push notification URL is missing")
    ELSE NoError

\* _get_user_query: the outcome of reading message.parts[0]
get_user_query(parts) ==
    IF parts = <<>> THEN [raised |-> "IndexError", text |-> ""]
    ELSE IF parts[1].type # "text" THEN [raised |-> "ValueError", text |-> ""]
    ELSE [raised |-> "no", text |-> parts[1].text]

\* ------------------------------------------------------------ on_send_task
\* what agent.invoke() does: return a dictionary or raise
AgentOutcomes ==
    {[raises |-> TRUE, value |-> <<>>]}
    \cup {[raises |-> FALSE, value |-> d] : d \in AgentResults}

Raised(type, message) == [tag |-> "raised", type |-> type, message |-> message]

\* one entry of a handler's record of its steps: the step and the stored
\* state of its task right after it
Step(name, store, id) == [step |-> name, state |-> TaskOf(store, id).status.state]

\* begin_task without the update to WORKING
begin_task_no_update(store, params) == upsert_task(store, params)

\* lines 106-107: the store once the task is upserted and set to WORKING
begin_task(store, params) ==
    update_store(upsert_task(store, params), params.id, TaskStatus("working", None), None)

\* agent_response_status that completes only an answer marked complete
agent_response_status_if_complete(agent_response) ==
    IF Get(agent_response, "require_user_input", FALSE)
    THEN TaskStatus("input-required", Some(Message(TextParts(agent_response))))
    ELSE IF Get(agent_response, "is_task_complete", FALSE)
    THEN TaskStatus("completed", None)
    ELSE TaskStatus("working", Some(Message(TextParts(agent_response))))

\* lines 79-98: the status and the artifact made of the agent's answer
agent_response_status(agent_response) ==
    IF Get(agent_response, "require_user_input", FALSE)
    THEN TaskStatus("input-required", Some(Message(TextParts(agent_response))))
    ELSE TaskStatus("completed", None)

\* agent_response_artifact that never makes an artifact
agent_response_no_artifact(agent_response) == None

agent_response_artifact(agent_response) ==
    IF Get(agent_response, "require_user_input", FALSE)
    THEN None
    ELSE Some([parts |-> TextParts(agent_response)])

\* line 98: the handler returns the task it copied
send_task_response(rq, store) ==
    [rq EXCEPT !.pc = "done",
               !.steps = Append(@, Step("return", store, rq.id)),
               !.resp = [tag |-> "result", result |-> rq.task_result[1]]]

\* task_result that returns the stored task as it is
task_result_untruncated(task, history_length) == task

\* line 95: the copy of the task that the handler returns
task_result(task, history_length) == append_task_history(task, history_length)

\* process_agent_response that notifies before it updates the store
process_agent_response_notify_first(rq, store, log, infos, agent_response) ==
    LET stored == update_store(store, rq.id, agent_response_status(agent_response),
                               agent_response_artifact(agent_response))
        task == TaskOf(stored, rq.id)
        result == task_result(task, rq.historyLength)
        notified == [rq EXCEPT !.pc = "return", !.parts = <<>>,
                               !.agent_response = Some(agent_response),
                               !.task_result = Some(result),
                               !.steps = rq.steps \o <<Step("invoke", store, rq.id),
                                                       Step("notify", store, rq.id),
                                                       Step("update", stored, rq.id)>>]
    IN [tasks |-> stored,
        sent |-> send_task_notification(infos, log, TaskOf(store, rq.id)),
        req |-> IF has_push_notification_info(infos, rq.id)
                THEN notified
                ELSE send_task_response(notified, stored)]

\* lines 79-98: store, notification log and request record after the call;
\* the coroutine waits at line 96 when a notification is sent
process_agent_response(rq, store, log, infos, agent_response) ==
    LET stored == update_store(store, rq.id, agent_response_status(agent_response),
                               agent_response_artifact(agent_response))
        task == TaskOf(stored, rq.id)
        result == task_result(task, rq.historyLength)
        notified == [rq EXCEPT !.pc = "return", !.parts = <<>>,
                               !.agent_response = Some(agent_response),
                               !.task_result = Some(result),
                               !.steps = rq.steps \o <<Step("invoke", store, rq.id),
                                                       Step("update", stored, rq.id),
                                                       Step("notify", stored, rq.id)>>]
    IN [tasks |-> stored,
        sent |-> send_task_notification(infos, log, task),
        req |-> IF has_push_notification_info(infos, rq.id)
                THEN notified
                ELSE send_task_response(notified, stored)]

\* lines 110-119: the query, the agent, the response
invoke_agent(rq, store, log, infos, outcome) ==
    LET query == get_user_query(rq.parts) IN
    IF query.raised # "no"
    THEN [tasks |-> store, sent |-> log,
          req |-> [rq EXCEPT !.pc = "done", !.parts = <<>>, !.historyLength = None,
                             !.resp = Raised(query.raised, "message.parts[0]")]]
    ELSE IF outcome.raises
    THEN [tasks |-> store, sent |-> log,
          req |-> [rq EXCEPT !.pc = "done", !.parts = <<>>, !.historyLength = None,
                             !.steps = Append(@, Step("invoke", store, rq.id)),
                             !.resp = Raised("ValueError", "Error invoking agent")]]
    ELSE process_agent_response(rq, store, log, infos, outcome.value)

\* lines 100-119; the coroutine waits at line 108 when a notification is sent
on_send_task(r, params) ==
    /\ r = nreq + 1
    /\ nreq' = r
    /\ IdAllowed(params.id)
    /\ LET validation_error == validate_request(params) IN
       IF validation_error # NoError
       THEN /\ req' = [req EXCEPT ![r] =
                         [@ EXCEPT !.kind = "send", !.id = params.id, !.pc = "done",
                                   !.modes = params.acceptedOutputModes,
                                   !.resp = [tag |-> "error", error |-> validation_error]]]
            /\ UNCHANGED <<tasks, sent>>
       ELSE LET upserted == upsert_task(tasks, params)
                stored == begin_task(tasks, params)
                log == send_task_notification(push_notification_infos, sent,
                                              TaskOf(stored, params.id))
                rq == [req[r] EXCEPT !.kind = "send", !.id = params.id,
                                     !.modes = params.acceptedOutputModes,
                                     !.pc = "invoke", !.parts = params.parts,
                                     !.historyLength = params.historyLength,
                                     !.steps = <<Step("upsert", upserted, params.id),
                                                 Step("update", stored, params.id),
                                                 Step("notify", stored, params.id)>>]
            IN IF has_push_notification_info(push_notification_infos, params.id)
               THEN /\ tasks' = stored
                    /\ sent' = log
                    /\ req' = [req EXCEPT ![r] = rq]
               ELSE \E outcome \in AgentOutcomes :
                      LET out == invoke_agent(rq, stored, log, push_notification_infos,
                                              outcome)
                      IN /\ tasks' = out.tasks
                         /\ sent' = out.sent
                         /\ req' = [req EXCEPT ![r] = out.req]
    /\ UNCHANGED <<push_notification_infos, task_sse_subscribers, queue>>

\* an exception of the delivery leaves on_send_task: nothing catches it
delivery_raised(rq) ==
    [rq EXCEPT !.pc = "done", !.parts = <<>>, !.historyLength = None,
               !.resp = Raised("Exception", "send_push_notification")]

\* lines 110-119, once the wait for the first notification (line 108) is over
on_send_task_resume(r, outcome, delivered) ==
    /\ req[r].kind = "send"
    /\ req[r].pc = "invoke"
    /\ LET delivery == send_push_notification(delivered)
           rq == [req[r] EXCEPT !.undelivered = @ \/ delivery.logged]
       IN IF delivery.raised
          THEN /\ req' = [req EXCEPT ![r] = delivery_raised(rq)]
               /\ UNCHANGED <<tasks, sent>>
          ELSE LET out == invoke_agent(rq, tasks, sent, push_notification_infos, outcome)
               IN /\ tasks' = out.tasks
                  /\ sent' = out.sent
                  /\ req' = [req EXCEPT ![r] = out.req]
    /\ UNCHANGED <<push_notification_infos, task_sse_subscribers, queue, nreq>>

\* line 98, once the wait for the second notification (line 96) is over
on_send_task_return(r, delivered) ==
    /\ req[r].kind = "send"
    /\ req[r].pc = "return"
    /\ LET delivery == send_push_notification(delivered)
           rq == [req[r] EXCEPT !.undelivered = @ \/ delivery.logged]
       IN req' = [req EXCEPT ![r] = IF delivery.raised THEN delivery_raised(rq)
                                    ELSE send_task_response(rq, tasks)]
    /\ UNCHANGED <<tasks, push_notification_infos, task_sse_subscribers, queue, nreq,
                   sent>>

\* ------------------------------------------------------------ queue registry
setup_sse_consumer(subs, task_id, handle) ==
    [subs EXCEPT ![task_id] = @ \cup {handle}]

\* the queues after enqueue_events_for_sse(task_id, event)
enqueue_events_for_sse(subs, queues, task_id, event) ==
    [q \in Reqs |-> IF q \in subs[task_id] THEN Append(queues[q], event) ELSE queues[q]]

TaskStatusUpdateEvent(id, status, final) ==
    [type |-> "status", id |-> id, status |-> status, final |-> final]
TaskArtifactUpdateEvent(id, artifact) ==
    [type |-> "artifact", id |-> id, artifact |-> artifact]
Artifact(parts, index, append) == [parts |-> parts, index |-> index, append |-> append]

IsErrorEvent(e) == e.type = "InternalError"
IsFinalStatus(e) == e.type = "status" /\ e.final
IsTerminalEvent(e) == IsErrorEvent(e) \/ IsFinalStatus(e)

\* ------------------------------------------------------------ on_send_task_subscribe
\* lines 121-136: the driver is created, its first line is not yet run
on_send_task_subscribe(r, params) ==
    /\ r = nreq + 1
    /\ nreq' = r
    /\ IdAllowed(params.id)
    /\ LET error == validate_request(params) IN
       IF error # NoError
       THEN /\ req' = [req EXCEPT ![r] =
                         [@ EXCEPT !.kind = "subscribe", !.id = params.id, !.pc = "done",
                                   !.modes = params.acceptedOutputModes,
                                   !.resp = [tag |-> "error", error |-> error]]]
            /\ UNCHANGED <<tasks, task_sse_subscribers>>
       ELSE /\ tasks' = upsert_task(tasks, params)
            /\ task_sse_subscribers' =
                 setup_sse_consumer(task_sse_subscribers, params.id, r)
            /\ req' = [req EXCEPT ![r] =
                         [@ EXCEPT !.kind = "subscribe", !.id = params.id,
                                   !.modes = params.acceptedOutputModes,
                                   !.pc = "start", !.parts = params.parts,
                                   !.resp = [tag |-> "stream"]]]
    /\ UNCHANGED <<push_notification_infos, queue, sent>>

\* ------------------------------------------------------------ _run_streaming_task
\* what one pull from agent.stream() does
StreamSteps ==
    {[kind |-> "stop", value |-> <<>>], [kind |-> "raise", value |-> <<>>]}
    \cup {[kind |-> "item", value |-> d] : d \in StreamItems}

StreamingError(cause) ==
    InternalError("An error occurred while streaming the response: " \o cause)

\* lines 145-163: the locals once the branches are taken; artifact keeps
\* the binding of an earlier iteration when the last branch is not taken
stream_item(rq, item) ==
    LET is_task_complete == Get(item, "is_task_complete", FALSE)
        require_user_input == Get(item, "require_user_input", FALSE)
        parts == TextParts(item)
    IN IF ~is_task_complete /\ ~require_user_input
       THEN [task_status |-> TaskStatus("working", Some(Message(parts))),
             artifact |-> rq.artifact, end_stream |-> FALSE]
       ELSE IF require_user_input
       THEN [task_status |-> TaskStatus("input-required", Some(Message(parts))),
             artifact |-> rq.artifact, end_stream |-> TRUE]
       ELSE [task_status |-> TaskStatus("completed", None),
             artifact |-> Some(Artifact(parts, 0, FALSE)), end_stream |-> TRUE]

\* publish_item that publishes the status event before the artifact event
publish_item_status_first(rq, subs, queues) ==
    IF ~IsSet(rq.artifact)
    THEN [queue |-> enqueue_events_for_sse(subs, queues, rq.id,
                                           StreamingError("UnboundLocalError")),
          pc |-> "failed", exc |-> "UnboundLocalError"]
    ELSE [queue |-> enqueue_events_for_sse(subs,
                        enqueue_events_for_sse(subs, queues, rq.id,
                            TaskStatusUpdateEvent(rq.id, rq.task_status[1], rq.end_stream)),
                        rq.id,
                        TaskArtifactUpdateEvent(rq.id, rq.artifact[1])),
          pc |-> "loop", exc |-> ""]

\* publish_item that puts its events on one of the task's queues only
publish_item_one_queue(rq, subs, queues) ==
    LET one == [subs EXCEPT ![rq.id] = IF @ = {} THEN {} ELSE {CHOOSE h \in @ : TRUE}]
    IN IF ~IsSet(rq.artifact)
       THEN [queue |-> enqueue_events_for_sse(one, queues, rq.id,
                                              StreamingError("UnboundLocalError")),
             pc |-> "failed", exc |-> "UnboundLocalError"]
       ELSE [queue |-> enqueue_events_for_sse(one,
                           enqueue_events_for_sse(one, queues, rq.id,
                               TaskArtifactUpdateEvent(rq.id, rq.artifact[1])),
                           rq.id,
                           TaskStatusUpdateEvent(rq.id, rq.task_status[1], rq.end_stream)),
             pc |-> "loop", exc |-> ""]

\* lines 167-172, and 174-179 when reading the unbound artifact raises:
\* the queues and the driver's position after the publishing half
publish_item(rq, subs, queues) ==
    IF ~IsSet(rq.artifact)
    THEN [queue |-> enqueue_events_for_sse(subs, queues, rq.id,
                                           StreamingError("UnboundLocalError")),
          pc |-> "failed", exc |-> "UnboundLocalError"]
    ELSE [queue |-> enqueue_events_for_sse(subs,
                        enqueue_events_for_sse(subs, queues, rq.id,
                            TaskArtifactUpdateEvent(rq.id, rq.artifact[1])),
                        rq.id,
                        TaskStatusUpdateEvent(rq.id, rq.task_status[1], rq.end_stream)),
          pc |-> "loop", exc |-> ""]

\* the items the agent has yielded so far
Pulled == LET Sum[n \in 0..MaxReq] == IF n = 0 THEN 0 ELSE Len(req[n].items) + Sum[n - 1]
          IN Sum[MaxReq]

\* lines 138-179: the driver runs from its first line, or from the pull it
\* waits in, to the next wait.  It ends "done" when the stream is exhausted,
\* "failed" through the except branch, "crashed" when the exception escapes.
run_streaming_task(r, step) ==
    /\ req[r].kind = "subscribe"
    /\ req[r].pc \in {"start", "loop"}
    /\ step.kind = "item" => Pulled < MaxItems
    /\ IF req[r].pc = "start" /\ get_user_query(req[r].parts).raised # "no"
       THEN /\ req' = [req EXCEPT ![r].pc = "crashed",
                                   ![r].exc = get_user_query(req[r].parts).raised]
            /\ UNCHANGED <<tasks, sent, queue>>
       ELSE IF step.kind = "stop"
       THEN /\ req' = [req EXCEPT ![r].pc = "done"]
            /\ UNCHANGED <<tasks, sent, queue>>
       ELSE IF step.kind = "raise"
       THEN /\ queue' = enqueue_events_for_sse(task_sse_subscribers, queue, req[r].id,
                                               StreamingError("agent"))
            /\ req' = [req EXCEPT ![r].pc = "failed", ![r].exc = "agent"]
            /\ UNCHANGED <<tasks, sent>>
       ELSE LET locals == stream_item(req[r], step.value)
                stored == update_store(tasks, req[r].id, locals.task_status, None)
                rq == [req[r] EXCEPT !.pc = "publish",
                                     !.items = Append(@, step.value),
                                     !.task_status = Some(locals.task_status),
                                     !.artifact = locals.artifact,
                                     !.end_stream = locals.end_stream]
                waits == has_push_notification_info(push_notification_infos, req[r].id)
                out == publish_item(rq, task_sse_subscribers, queue)
            IN /\ tasks' = stored
               /\ sent' = send_task_notification(push_notification_infos, sent,
                                                 TaskOf(stored, req[r].id))
               /\ queue' = IF waits THEN queue ELSE out.queue
               /\ req' = [req EXCEPT ![r] =
                            IF waits THEN rq
                            ELSE [rq EXCEPT !.pc = out.pc, !.exc = out.exc]]
    /\ UNCHANGED <<push_notification_infos, task_sse_subscribers, nreq>>

\* lines 167-172, once the wait for the notification (line 165) is over; an
\* exception of the delivery is raised inside the try block
run_streaming_task_resume(r, delivered) ==
    /\ req[r].kind = "subscribe"
    /\ req[r].pc = "publish"
    /\ LET delivery == send_push_notification(delivered)
           rq == [req[r] EXCEPT !.undelivered = @ \/ delivery.logged]
           out == publish_item(rq, task_sse_subscribers, queue)
       IN IF delivery.raised
          THEN /\ queue' = enqueue_events_for_sse(task_sse_subscribers, queue, rq.id,
                                                  StreamingError("send_push_notification"))
               /\ req' = [req EXCEPT ![r] = [rq EXCEPT !.pc = "failed",
                                                       !.exc = "send_push_notification"]]
          ELSE /\ queue' = out.queue
               /\ req' = [req EXCEPT ![r] = [rq EXCEPT !.pc = out.pc, !.exc = out.exc]]
    /\ UNCHANGED <<tasks, push_notification_infos, task_sse_subscribers, nreq, sent>>

\* ------------------------------------------------------------ subscribers
HasTerminalEvent(q) == \E i \in 1..Len(q) : IsTerminalEvent(q[i])
FirstTerminal(q) == CHOOSE i \in 1..Len(q) :
                        IsTerminalEvent(q[i]) /\ \A j \in 1..(i - 1) : ~IsTerminalEvent(q[j])

\* what the consumer of a queue is handed: the events up to the first
\* terminal one
Observed(q) == IF HasTerminalEvent(q) THEN SubSeq(q, 1, FirstTerminal(q)) ELSE q

\* the consumer has taken the events up to a terminal one: its sequence ends
\* and its queue is deregistered
dequeue_events_for_sse(r) ==
    /\ req[r].kind = "subscribe"
    /\ r \in task_sse_subscribers[req[r].id]
    /\ HasTerminalEvent(queue[r])
    /\ task_sse_subscribers' = [task_sse_subscribers EXCEPT ![req[r].id] = @ \ {r}]
    /\ UNCHANGED <<tasks, push_notification_infos, queue, req, nreq, sent>>

\* the subscriber disconnects before a terminal event
close(r) ==
    /\ req[r].kind = "subscribe"
    /\ r \in task_sse_subscribers[req[r].id]
    /\ ~HasTerminalEvent(queue[r])
    /\ task_sse_subscribers' = [task_sse_subscribers EXCEPT ![req[r].id] = @ \ {r}]
    /\ UNCHANGED <<tasks, push_notification_infos, queue, req, nreq, sent>>

\* ------------------------------------------------------------ specification
Next ==
    \/ \E r \in Reqs, params \in TaskSendParams : on_send_task(r, params)
    \/ \E r \in Reqs, outcome \in AgentOutcomes, delivered \in BOOLEAN :
          on_send_task_resume(r, outcome, delivered)
    \/ \E r \in Reqs, delivered \in BOOLEAN : on_send_task_return(r, delivered)
    \/ \E r \in Reqs, params \in StreamingParams : on_send_task_subscribe(r, params)
    \/ \E r \in Reqs, step \in StreamSteps : run_streaming_task(r, step)
    \/ \E r \in Reqs, delivered \in BOOLEAN : run_streaming_task_resume(r, delivered)
    \/ \E r \in Reqs : dequeue_events_for_sse(r)
    \/ \E r \in Reqs : close(r)
    \/ \E r \in Reqs, task_id \in TaskIds, url \in Urls :
          set_push_notification_info(r, task_id, url)

Spec == Init /\ [][Next]_vars

TypeOK == nreq \in 0..MaxReq

\* ------------------------------------------------------------ validation claims
\* request r is received by one of the two send handlers with these parameters
Received(r, params) == on_send_task(r, params) \/ on_send_task_subscribe(r, params)

\* the step answers request r with the error and touches nothing else: no
\* task, push config, queue, subscriber, notification, driver or agent call
RejectedUntouched(r, error) ==
    /\ req'[r].resp = [tag |-> "error", error |-> error]
    /\ req'[r].pc = "done"
    /\ req'[r].steps = <<>>
    /\ req'[r].agent_response = None
    /\ \A q \in Reqs \ {r} : req'[q] = req[q]
    /\ UNCHANGED <<tasks, push_notification_infos, task_sse_subscribers, queue, sent>>

\* C1: a send or subscribe request whose acceptedOutputModes shares no mode
\* with SUPPORTED_CONTENT_TYPES is answered with InvalidParams and changes
\* nothing: no task created or updated, no queue registered, no driver
\* started, no notification sent, no agent call.
C1_IncompatibleModesRejected ==
    [][\A r \in Reqs, params \in TaskSendParams :
          (params.acceptedOutputModes \cap SUPPORTED_CONTENT_TYPES = {}
             /\ Received(r, params))
          => RejectedUntouched(r, InvalidParamsError("Incompatible output modes"))]_vars

RejectedFor(r, kind, message) ==
    /\ req[r].kind = kind
    /\ req[r].resp.tag = "error"
    /\ req[r].resp.error = InvalidParamsError(message)

\* a send request was rejected for its modes although its task exists
C1_Witness ==
    /\ RejectedFor(2, "send", "Incompatible output modes")
    /\ HasTask(tasks, req[2].id)

\* C2: a send or subscribe request that asks for push notification without a
\* URL is answered with InvalidParams and changes nothing: Task Store, push
\* configs, subscriber queues and drivers are as before.
C2_MissingPushUrlRejected ==
    [][\A r \in Reqs, params \in TaskSendParams :
          (IsSet(params.pushNotification) /\ params.pushNotification[1].url = ""
             /\ Received(r, params))
          => /\ req'[r].resp.tag = "error"
             /\ RejectedUntouched(r, req'[r].resp.error)
             /\ req'[r].resp.error.type = "InvalidParamsError"]_vars

\* a request with compatible modes was rejected for its missing push URL
\* while the task had a push config stored
C2_Witness ==
    \E r \in Reqs :
        /\ req[r].kind \in {"send", "subscribe"}
        /\ req[r].resp.tag = "error"
        /\ req[r].resp.error = InvalidParamsError("Push notification URL is missing")
        /\ has_push_notification_info(push_notification_infos, req[r].id)

\* ------------------------------------------------------------ synchronous claims
IsCompleting(d) ==
    Get(d, "is_task_complete", FALSE) /\ ~Get(d, "require_user_input", FALSE)

\* the step in which on_send_task of request r stores the agent's answer
Persists(r) == req[r].task_result = None /\ req'[r].kind = "send"
               /\ req'[r].task_result # None

ArtifactsOf(store, id) == IF HasTask(store, id) THEN TaskOf(store, id).artifacts ELSE <<>>

\* C3: a valid handleSend whose agent returned a completing result
\* {content: c} stores the status COMPLETED and appends exactly one artifact
\* whose single part is the text c, and the task it returns carries that
\* status and that artifact.
C3_CompletedWithOneArtifact ==
    /\ [][\A r \in Reqs :
            (Persists(r) /\ IsCompleting(req'[r].agent_response[1]))
            => LET id == req'[r].id
                   c == req'[r].agent_response[1]["content"]
                   stored == TaskOf(tasks', id)
                   result == req'[r].task_result[1]
               IN /\ stored.status.state = "completed"
                  /\ stored.artifacts =
                       Append(ArtifactsOf(tasks, id),
                              [parts |-> <<[type |-> "text", text |-> c]>>])
                  /\ result.status = stored.status
                  /\ result.artifacts = stored.artifacts]_vars
    /\ [](\A r \in Reqs :
            (req[r].kind = "send" /\ req[r].resp.tag = "result")
            => req[r].resp.result = req[r].task_result[1])

\* two sends for one task completed, each leaving its artifact
C3_Witness ==
    /\ req[2].kind = "send"
    /\ req[2].resp.tag = "result"
    /\ IsCompleting(req[2].agent_response[1])
    /\ Len(TaskOf(tasks, req[2].id).artifacts) = 2

\* on_send_task of request r has ended and its call of the agent raised
AgentRaised(r) ==
    /\ req[r].kind = "send"
    /\ req[r].pc = "done"
    /\ req[r].steps # <<>>
    /\ req[r].steps[Len(req[r].steps)].step = "invoke"
    /\ req[r].agent_response = None

\* C4: when the agent invocation of a valid handleSend raises, the handler
\* returns an InternalError response, and the stored status is left at
\* WORKING with no artifact appended.
C4_InternalErrorReturned ==
    [][\A r \in Reqs :
          (~AgentRaised(r) /\ AgentRaised(r)')
          => /\ req'[r].resp.tag = "error"
             /\ req'[r].resp.error.type = "InternalError"
             /\ TaskOf(tasks', req'[r].id).status.state = "working"
             /\ TaskOf(tasks', req'[r].id).artifacts = ArtifactsOf(tasks, req'[r].id)]_vars

\* the part of C4 about the store: status left at WORKING, no artifact
C4_StatusLeftWorking ==
    [][\A r \in Reqs :
          (~AgentRaised(r) /\ AgentRaised(r)')
          => /\ TaskOf(tasks', req'[r].id).status.state = "working"
             /\ TaskOf(tasks', req'[r].id).artifacts = ArtifactsOf(tasks, req'[r].id)]_vars

\* C9: a valid handleSend for a task whose stored status is INPUT_REQUIRED
\* sets that task's status to WORKING before it invokes the agent, and the
\* Task Store never holds two records with one id.
C9_ResumedToWorking ==
    /\ \A t1 \in tasks, t2 \in tasks : t1.id = t2.id => t1 = t2
    /\ \A r \in Reqs :
         (req[r].kind = "send" /\ req[r].steps # <<>>
            /\ req[r].steps[1].state = "input-required")
         => /\ req[r].steps[2] = [step |-> "update", state |-> "working"]
            /\ \A i \in 1..Len(req[r].steps) : req[r].steps[i].step = "invoke" => i > 2

\* a send found its task at INPUT_REQUIRED and went on to invoke the agent
C9_Witness ==
    \E r \in Reqs :
        /\ req[r].kind = "send"
        /\ Len(req[r].steps) >= 4
        /\ req[r].steps[1] = [step |-> "upsert", state |-> "input-required"]
        /\ req[r].steps[4].step = "invoke"
        /\ Cardinality(tasks) = 1

\* ------------------------------------------------------------ push config claims
SentTo(id) == SelectSeq(sent, LAMBDA n : n.id = id)

\* the step in which set_push_notification_info is called as request r
SetsPush(r) == req[r].kind = "none" /\ req'[r].kind = "set_push"

\* C10: set_push_notification_info with a URL that fails verification
\* returns failure and leaves the stored push config as it was; while a task
\* has no push config no notification is sent for it; and a stored push
\* config always holds a URL whose verification succeeds.
C10_OnlyVerifiedUrlsStored ==
    /\ [](\A id \in TaskIds :
            IsSet(push_notification_infos[id])
            => verify_push_notification_url(push_notification_infos[id][1].url))
    /\ [][\A r \in Reqs :
            (SetsPush(r) /\ ~verify_push_notification_url(req'[r].url))
            => /\ req'[r].resp = [tag |-> "returned", value |-> FALSE]
               /\ UNCHANGED push_notification_infos]_vars
    /\ [][\A id \in TaskIds :
            ~IsSet(push_notification_infos[id]) => SentTo(id)' = SentTo(id)]_vars

\* a URL failed verification, and a later send for that task ran both of its
\* notifications without anything being sent
C10_Witness ==
    /\ req[1].kind = "set_push"
    /\ req[1].resp = [tag |-> "returned", value |-> FALSE]
    /\ req[2].kind = "send"
    /\ req[2].id = req[1].id
    /\ req[2].resp.tag = "result"
    /\ sent = <<>>

\* ------------------------------------------------------------ streaming claims
\* request r is a streaming request that passed validation
Streams(r) == req[r].kind = "subscribe" /\ req[r].resp.tag = "stream"

\* the driver of r is inside its loop over the agent's stream
DriverActive(r) == Streams(r) /\ req[r].pc \in {"loop", "publish"}
\* the driver of r has run its last line
DriverEnded(r) == Streams(r) /\ req[r].pc \in {"done", "failed", "crashed"}

\* no other request names the task of r
Sole(r) == \A q \in Reqs \ {r} : req[q].kind = "none" \/ req[q].id # req[r].id

\* the subscriber of r did not disconnect
NotClosed(r) == r \in task_sse_subscribers[req[r].id] \/ HasTerminalEvent(queue[r])

\* the items of r's stream that went through the whole loop body
Processed(r) == IF req[r].pc = "publish" THEN Len(req[r].items) - 1 ELSE Len(req[r].items)

Thinking == AgentResult("thinking", FALSE, FALSE)
Done == AgentResult("done", TRUE, FALSE)

WorkingEvent(id) ==
    TaskStatusUpdateEvent(id, TaskStatus("working", Some(Message(TextParts(Thinking)))), FALSE)
DoneArtifactEvent(id) ==
    TaskArtifactUpdateEvent(id, Artifact(TextParts(Done), 0, FALSE))
CompletedEvent(id) ==
    TaskStatusUpdateEvent(id, TaskStatus("completed", None), TRUE)

\* C5: when the agent's stream yields an in-progress item and then a
\* completing item, the subscriber's queue receives the WORKING status event
\* (final=false) for the first, then the artifact event and the COMPLETED
\* status event (final=true) for the second, and no error event.
C5_WorkingThenCompleted ==
    \A r \in Reqs :
        (/\ Streams(r) /\ Sole(r) /\ NotClosed(r)
         /\ req[r].exc \notin {"agent", "ValueError", "IndexError"}
         /\ Len(req[r].items) >= 1 /\ req[r].items[1] = Thinking
         /\ Len(req[r].items) >= 2 => req[r].items[2] = Done)
        => queue[r] =
             IF Processed(r) = 0 THEN <<>>
             ELSE IF Processed(r) = 1 THEN <<WorkingEvent(req[r].id)>>
             ELSE <<WorkingEvent(req[r].id), DoneArtifactEvent(req[r].id),
                    CompletedEvent(req[r].id)>>

FinalEvents(q) == {i \in 1..Len(q) : IsFinalStatus(q[i])}

\* C6: over the whole run of a streaming driver, whatever the agent's stream
\* does (end without a terminal item, raise, go on after a terminal item),
\* exactly one status event with final=true is put on the subscription's
\* queue: never two, and one once the driver has ended.
C6_ExactlyOneFinal ==
    \A r \in Reqs :
        (Streams(r) /\ Sole(r) /\ NotClosed(r) /\ req[r].pc # "crashed")
        => /\ Cardinality(FinalEvents(queue[r])) <= 1
           /\ DriverEnded(r) => Cardinality(FinalEvents(queue[r])) = 1

\* C7: no task id has two streaming drivers active at the same time.
C7_OneDriverPerTask ==
    \A r1 \in Reqs, r2 \in Reqs :
        (r1 # r2 /\ DriverActive(r1) /\ DriverActive(r2)) => req[r1].id # req[r2].id

\* C8: a streaming driver never ends without a terminal event (a final
\* status event or an error event) on the queue of its subscriber; whatever
\* raises in the driver is published as an error event.
C8_DriverEndsWithTerminalEvent ==
    \A r \in Reqs :
        (DriverEnded(r) /\ Sole(r) /\ NotClosed(r))
        => /\ HasTerminalEvent(queue[r])
           /\ req[r].exc # "" => \E i \in 1..Len(queue[r]) : IsErrorEvent(queue[r][i])

\* ------------------------------------------------------------ delivery claims
\* the events put on queue h by the step
Appended(h) == SubSeq(queue'[h], Len(queue[h]) + 1, Len(queue'[h]))

\* the step in which the driver of r resumes after the first delivery that
\* failed
DeliveryFailedInDriver(r) ==
    req[r].kind = "subscribe" /\ ~req[r].undelivered /\ req'[r].undelivered

\* C11: a failed delivery of a push notification never fails the task.  A
\* handleSend whose delivery failed still returns the task with the final
\* status of the agent's answer; a driver whose delivery failed publishes the
\* status event of that increment as the last event of the step, goes on to
\* the next increment, and publishes no error event.
C11_FailedDeliveryHarmless ==
    /\ [](\A r \in Reqs :
            (req[r].kind = "send" /\ req[r].undelivered /\ req[r].pc = "done"
               /\ IsSet(req[r].agent_response))
            => /\ req[r].resp.tag = "result"
               /\ req[r].resp.result.status =
                    agent_response_status(req[r].agent_response[1]))
    /\ [][\A r \in Reqs :
            DeliveryFailedInDriver(r)
            => /\ req'[r].pc = "loop"
               /\ \A h \in task_sse_subscribers[req[r].id] :
                    /\ Appended(h) # <<>>
                    /\ Appended(h)[Len(Appended(h))] =
                         TaskStatusUpdateEvent(req[r].id, req[r].task_status[1],
                                               req[r].end_stream)
                    /\ \A i \in 1..Len(Appended(h)) : ~IsErrorEvent(Appended(h)[i])]_vars

\* the part of C11 about handleSend: the response after a failed delivery
C11_SendUnaffected ==
    \A r \in Reqs :
        (req[r].kind = "send" /\ req[r].undelivered /\ req[r].pc = "done"
           /\ IsSet(req[r].agent_response))
        => /\ req[r].resp.tag = "result"
           /\ req[r].resp.result.status = agent_response_status(req[r].agent_response[1])

\* ------------------------------------------------------------ subscriber claims
StatusEvents(q) == SelectSeq(q, LAMBDA e : e.type = "status")

\* r1 and r2 are two streaming requests of one task, both still registered
BothRegistered(r1, r2) ==
    /\ r1 # r2 /\ Streams(r1) /\ Streams(r2) /\ req[r1].id = req[r2].id
    /\ {r1, r2} \subseteq task_sse_subscribers[req[r1].id]

Registers(r) == req[r].kind = "none" /\ Streams(r)'

Closed(r) ==
    Streams(r) /\ r \notin task_sse_subscribers[req[r].id] /\ ~HasTerminalEvent(queue[r])

\* no other send or streaming request names the task of r
SoleHandler(r) ==
    \A q \in Reqs \ {r} : req[q].kind \in {"none", "set_push"} \/ req[q].id # req[r].id

\* the state the design gives to an agent increment
ItemState(d) ==
    IF Get(d, "require_user_input", FALSE) THEN "input-required"
    ELSE IF Get(d, "is_task_complete", FALSE) THEN "completed"
    ELSE "working"

\* the driver of r, whose request carries a text part, waits for an increment
\* of the agent's stream (the first one included) or for a delivery
DriverWaits(r) ==
    /\ Streams(r)
    /\ \/ req[r].pc \in {"loop", "publish"}
       \/ req[r].pc = "start" /\ get_user_query(req[r].parts).raised = "no"

\* C13: once the only subscriber of a streaming task has disconnected while
\* the driver is running, the driver is not cancelled: each of its steps
\* either waits for the next increment or ends because the agent's stream
\* ended, and the stored status is the status of the last increment.
C13_DriverSurvivesDisconnect ==
    [][\A r \in Reqs :
          (Closed(r) /\ SoleHandler(r) /\ DriverWaits(r) /\ req'[r] # req[r])
          => /\ req'[r].pc \in {"loop", "publish", "done"} \/ req'[r].exc = "agent"
             /\ req'[r].items # <<>>
                  => TaskOf(tasks', req[r].id).status.state =
                       ItemState(req'[r].items[Len(req'[r].items)])]_vars

\* ------------------------------------------------------------ history claims
\* the historyLength a request asked for, unset counting as 0
Requested(r) == IF IsSet(req[r].historyLength) THEN req[r].historyLength[1] ELSE 0

IsSuffix(s, t) == Len(s) <= Len(t) /\ s = SubSeq(t, Len(t) - Len(s) + 1, Len(t))

IsPrefix(s, t) == Len(s) <= Len(t) /\ s = SubSeq(t, 1, Len(s))

\* C14: the task returned by a successful handleSend has at most
\* historyLength entries of history (none when historyLength is 0 or unset),
\* they are the last entries of the history stored at that moment, and the
\* history kept in the Task Store loses no entry.
C14_HistoryTruncatedOnRead ==
    /\ [](\A r \in Reqs :
            (req[r].kind = "send" /\ req[r].resp.tag = "result")
            => Len(req[r].resp.result.history) <= Requested(r))
    /\ [][\A r \in Reqs :
            Persists(r)
            => /\ IsSuffix(req'[r].task_result[1].history,
                           TaskOf(tasks', req'[r].id).history)
               /\ Len(TaskOf(tasks', req'[r].id).history) >= 2]_vars
    /\ [][\A t \in tasks :
            /\ HasTask(tasks', t.id)
            /\ IsPrefix(t.history, TaskOf(tasks', t.id).history)]_vars

\* a second send for a task asked for one entry and got one, while the store
\* keeps the four statuses the task went through
C14_Witness ==
    /\ req[2].kind = "send"
    /\ req[2].resp.tag = "result"
    /\ req[2].historyLength = Some(1)
    /\ Len(req[2].resp.result.history) = 1
    /\ Len(TaskOf(tasks, req[2].id).history) = 4

\* ------------------------------------------------------------ driver claims
\* the driver of r has published the final=true status event of its last
\* increment and waits for the stream again
FinalPublished(r) == Streams(r) /\ req[r].end_stream /\ req[r].pc = "loop"

\* C15: once a streaming driver has published a status event with
\* final=true, no step of that driver puts an event on a queue or updates the
\* Task Store, whatever the agent's stream yields afterwards.
C15_NothingAfterFinal ==
    [][\A r \in Reqs :
          (FinalPublished(r) /\ req'[r] # req[r]) => UNCHANGED <<tasks, queue>>]_vars

ArtifactEvents(q) == SelectSeq(q, LAMBDA e : e.type = "artifact")

\* the step in which the driver of r ends the loop body for an increment
Publishes(r) == Streams(r) /\ Processed(r)' = Processed(r) + 1

\* the increment that step is about
Published(r) == req'[r].items[Processed(r)']

\* C16: the driver publishes an artifact event for an agent item exactly
\* when the item has require_user_input=false and is_task_complete=true; the
\* artifact has index 0, append=false and the item's content.  An in-progress
\* or input-required item gets no artifact event, whatever came before it.
C16_ArtifactOnlyForCompletingItem ==
    [][\A r \in Reqs :
          Publishes(r)
          => \A h \in task_sse_subscribers[req[r].id] :
                ArtifactEvents(Appended(h)) =
                  IF IsCompleting(Published(r))
                  THEN <<[type |-> "artifact", id |-> req[r].id,
                          artifact |->
                            [parts |-> <<[type |-> "text",
                                          text |-> Published(r)["content"]]>>,
                             index |-> 0, append |-> FALSE]]>>
                  ELSE <<>>]_vars

\* the status event of increment d agrees with the table of the design:
\* WORKING with a message and final=false for an item with both flags false,
\* INPUT_REQUIRED and final=true for require_user_input, COMPLETED and
\* final=true for a completing item
FollowsTable(e, d) ==
    /\ e.type = "status"
    /\ e.status.state = ItemState(d)
    /\ e.final = (ItemState(d) # "working")
    /\ ItemState(d) = "working"
         => e.status.message = Some(Message(<<[type |-> "text", text |-> d["content"]]>>))

\* C17: the driver maps every agent item to one status event, for all four
\* combinations of the flags: both false gives WORKING with a message and
\* final=false; require_user_input=true gives INPUT_REQUIRED with final=true
\* whatever is_task_complete is; is_task_complete=true alone gives COMPLETED
\* with final=true.
C17_ItemMappedToStatusEvent ==
    [][\A r \in Reqs :
          Publishes(r)
          => \A h \in task_sse_subscribers[req[r].id] :
                /\ Len(StatusEvents(Appended(h))) = 1
                /\ FollowsTable(StatusEvents(Appended(h))[1], Published(r))]_vars

\* the part of C17 that holds: a status event the driver does publish for an
\* increment follows the table
C17_PublishedEventFollowsTable ==
    [][\A r \in Reqs :
          Publishes(r)
          => \A h \in task_sse_subscribers[req[r].id] :
                \A i \in 1..Len(StatusEvents(Appended(h))) :
                   FollowsTable(StatusEvents(Appended(h))[i], Published(r))]_vars

\* ------------------------------------------------------------ store claims
\* the step in which the driver of r pulls an increment and stores its status
Pulls(r) == Streams(r) /\ Len(req'[r].items) = Len(req[r].items) + 1

\* the increment that step is about
PulledItem(r) == req'[r].items[Len(req'[r].items)]

\* the task of id as _process_agent_response would store it for the answer d
StoredBySend(id, d) ==
    TaskOf(update_store(tasks, id, agent_response_status(d),
                        agent_response_artifact(d)), id)

\* C18: for a terminal agent result the streaming driver leaves the task
\* stored as handleSend leaves it for the same result: the same state and
\* the same artifacts, so a completing result leaves its artifact stored.
C18_StreamStoresAsSend ==
    [][\A r \in Reqs :
          (Pulls(r) /\ ItemState(PulledItem(r)) # "working")
          => LET after == TaskOf(tasks', req[r].id)
                 sync == StoredBySend(req[r].id, PulledItem(r))
             IN /\ after.status.state = sync.status.state
                /\ after.artifacts = sync.artifacts]_vars

\* the changes of state the design's state machine allows
AllowedChanges ==
    {<<"submitted", "working">>, <<"working", "working">>,
     <<"working", "input-required">>, <<"working", "completed">>,
     <<"working", "failed">>, <<"input-required", "working">>}

\* every status the task has had, in order: update_store keeps each replaced
\* status in the history
StatesOf(t) == [i \in 1..(Len(t.history) + 1) |->
                   IF i <= Len(t.history) THEN t.history[i].state ELSE t.status.state]

\* C19: every change of a task's stored status follows the state machine:
\* SUBMITTED to WORKING, WORKING to WORKING, INPUT_REQUIRED, COMPLETED or
\* FAILED, INPUT_REQUIRED to WORKING.  No task leaves COMPLETED or FAILED, and
\* none reaches a terminal state from SUBMITTED or INPUT_REQUIRED without
\* passing through WORKING.
C19_StatusFollowsStateMachine ==
    \A t \in tasks :
        \A i \in 1..Len(t.history) :
            \/ StatesOf(t)[i] = StatesOf(t)[i + 1]
            \/ <<StatesOf(t)[i], StatesOf(t)[i + 1]>> \in AllowedChanges

\* ------------------------------------------------------------ ordering claims
\* every request for the task of the first request is a streaming request
\* whose driver is not between the update of the store and the publication
OnlyStreams ==
    /\ Streams(1)
    /\ 1 \in task_sse_subscribers[req[1].id]
    /\ \A q \in Reqs :
          \/ req[q].kind = "none"
          \/ req[q].id # req[1].id
          \/ Streams(q) /\ req[q].pc # "publish"

StatesIn(q) == [i \in 1..Len(StatusEvents(q)) |-> StatusEvents(q)[i].status.state]

\* C20: the queue of a subscriber registered since the task was created
\* holds one status event per agent increment observed for the task, in the
\* order of observation (the order of the store's updates): none dropped,
\* merged or out of order, also when a second streaming request was issued
\* for the task.
C20_StatusEventsInIncrementOrder ==
    OnlyStreams => StatesIn(queue[1]) = Tail(StatesOf(TaskOf(tasks, req[1].id)))

\* ------------------------------------------------------------ order claims
StepNames(r) == [i \in 1..Len(req[r].steps) |-> req[r].steps[i].step]

\* the notifications handed to the sender by the step
NewlySent == SubSeq(sent', Len(sent) + 1, Len(sent'))

\* C21: a successful handleSend upserts the task, sets it to WORKING,
\* notifies, only then invokes the agent, persists the final status, notifies
\* again and returns.  Each of the two updates is followed by exactly one
\* notify call, and a notification never reports a status that is not the one
\* persisted at that moment.
C21_SendStepsInOrder ==
    /\ [](\A r \in Reqs :
            (req[r].kind = "send" /\ req[r].resp.tag = "result")
            => /\ StepNames(r) = <<"upsert", "update", "notify", "invoke",
                                   "update", "notify", "return">>
               /\ req[r].steps[2].state = "working"
               /\ req[r].steps[3].state = "working"
               /\ req[r].steps[5].state =
                    agent_response_status(req[r].agent_response[1]).state
               /\ req[r].steps[6].state = req[r].steps[5].state)
    /\ [][\A i \in 1..Len(NewlySent) :
            NewlySent[i].state = TaskOf(tasks', NewlySent[i].id).status.state]_vars
    /\ [](\A r \in Reqs :
            (/\ req[r].kind = "send" /\ req[r].resp.tag = "result" /\ SoleHandler(r)
             /\ r > 1 /\ req[1].kind = "set_push" /\ req[1].id = req[r].id
             /\ req[1].resp.value)
            => [i \in 1..Len(SentTo(req[r].id)) |-> SentTo(req[r].id)[i].state] =
                 <<"working", agent_response_status(req[r].agent_response[1]).state>>)

\* a send for a task with a push config returned its result after its two
\* notifications, the second one reporting INPUT_REQUIRED
C21_Witness ==
    /\ req[2].kind = "send"
    /\ req[2].resp.tag = "result"
    /\ Len(sent) = 2
    /\ sent[1].state = "working"
    /\ sent[2].state = "input-required"
    /\ Len(req[2].steps) = 7

\* ------------------------------------------------------------ output mode claims
IncompatibleModes == InvalidParamsError("Incompatible output modes")

ReceivedNow(r) == req[r].kind = "none" /\ req'[r].kind \in {"send", "subscribe"}

RequiresInput(d) == "require_user_input" \in DOMAIN d /\ d["require_user_input"]

\* C23: on the synchronous path the final status depends only on
\* require_user_input.  When it is true the task is stored INPUT_REQUIRED and
\* no artifact is appended; when it is false or missing the task is stored
\* COMPLETED and exactly one artifact is appended, whatever is_task_complete
\* is.  The task a successful handleSend returns is never SUBMITTED, WORKING
\* or FAILED.
C23_FinalStatusFromRequireUserInput ==
    /\ [][\A r \in Reqs :
            Persists(r)
            => LET d == req'[r].agent_response[1]
                   stored == TaskOf(tasks', req'[r].id)
                   before == ArtifactsOf(tasks, req'[r].id)
               IN IF RequiresInput(d)
                  THEN /\ stored.status.state = "input-required"
                       /\ stored.artifacts = before
                  ELSE /\ stored.status.state = "completed"
                       /\ Len(stored.artifacts) = Len(before) + 1
                       /\ SubSeq(stored.artifacts, 1, Len(before)) = before]_vars
    /\ [](\A r \in Reqs :
            (req[r].kind = "send" /\ req[r].resp.tag = "result")
            => req[r].resp.result.status.state \in {"input-required", "completed"})

\* a send whose agent answered with both flags false returned the task
\* COMPLETED with its artifact
C23_Witness ==
    \E r \in Reqs :
        /\ req[r].kind = "send"
        /\ req[r].resp.tag = "result"
        /\ req[r].agent_response = Some(AgentResult("thinking", FALSE, FALSE))
        /\ req[r].resp.result.status.state = "completed"
        /\ Len(req[r].resp.result.artifacts) = 1

\* ------------------------------------------------------------ increment order claims
\* every status the task of id has had in the store
WrittenStatuses(store, id) ==
    LET t == TaskOf(store, id)
    IN {t.status} \cup {t.history[i] : i \in 1..Len(t.history)}

\* C24: for every increment the driver updates the Task Store, then sends
\* the notification, then publishes the artifact event (if any), then the
\* status event.  The step that pulls an increment writes its status before
\* it notifies and notifies the written status; events are published in that
\* step or a later one, after the notification was handed over; a published
\* status event carries a status already written to the store; and the
\* artifact event of a completing increment comes right before its
\* final=true status event.
C24_IncrementStepsInOrder ==
    /\ [][\A r \in Reqs :
            Pulls(r)
            => /\ req'[r].task_status[1] \in WrittenStatuses(tasks', req[r].id)
               /\ \A i \in 1..Len(NewlySent) :
                    NewlySent[i] = [id |-> req[r].id,
                                    state |-> req'[r].task_status[1].state,
                                    url |-> push_notification_infos[req[r].id][1].url]
               /\ has_push_notification_info(push_notification_infos, req[r].id)
                    => /\ Len(NewlySent) = 1
                       /\ UNCHANGED queue]_vars
    /\ [][\A r \in Reqs :
            Publishes(r)
            => /\ ~Pulls(r) => UNCHANGED <<tasks, sent>>
               /\ \A h \in task_sse_subscribers[req[r].id] :
                    LET new == Appended(h) IN
                    /\ \A i \in 1..Len(new) :
                         new[i].type = "status"
                         => /\ new[i].status \in WrittenStatuses(tasks', req[r].id)
                            /\ i = Len(new)
                    /\ IsCompleting(Published(r))
                         => new = <<TaskArtifactUpdateEvent(req[r].id,
                                        Artifact(TextParts(Published(r)), 0, FALSE)),
                                    TaskStatusUpdateEvent(req[r].id,
                                        TaskStatus("completed", None), TRUE)>>]_vars

\* a subscriber of a task with a push config holds the artifact event and
\* then the final status event of a completing increment, published after
\* its notification
C24_Witness ==
    /\ req[1].kind = "set_push"
    /\ Streams(2)
    /\ req[2].items = <<AgentResult("done", TRUE, FALSE)>>
    /\ req[2].pc = "loop"
    /\ Len(queue[2]) = 2
    /\ queue[2][1].type = "artifact"
    /\ IsFinalStatus(queue[2][2])
    /\ Len(sent) = 1
    /\ sent[1].state = "completed"

====
